---- MODULE Spec2Model ----
(***************************************************************************)
(* Model of samples/spark/tutorials/realtime/realtimewebservices.ipynb:    *)
(* the notebook that reads the housing data, fits and saves a pipeline,    *)
(* writes score.py (init / run), generates the service schema and tests    *)
(* the scoring functions.  Strings are sequences of one-character strings; *)
(* doubles are fixed-point numbers in tenths.                              *)
(***************************************************************************)
EXTENDS Integers, Sequences, FiniteSets, TLC

VARIABLES
  df2,         \* notebook: the table read from housing.csv
  nbPipeline,  \* notebook: the name `pipeline` bound by Pipeline(...).fit(df2)
  disk,        \* the directory housing.model
  lastSaved,   \* history: the fit handed to the most recent save
  schemaFile,  \* service_schema.json
  pipeline,    \* score.py: the module-level name `pipeline`
  calls,       \* score.py: the frame of each thread's call of run
  proc,        \* the process hosting score.py
  inits,       \* history: inits the host has completed in this process lifetime
  fresh        \* history: housing.model is as the last completed init read it

vars == <<df2, nbPipeline, disk, lastSaved, schemaFile, pipeline, calls, proc, inits,
         fresh>>

-----------------------------------------------------------------------------
(* Bounds *)

\* longest input table the notebook hands to run
MaxRows == 3

\* longest input table of a request to the deployed service
MaxRequestRows == 2

\* rows of the larger housing data set
MaxDataRows == 4

\* threads of the host that may be inside run at once
Threads == {1, 2}

-----------------------------------------------------------------------------
(* Tables *)

NULL == -1

Range(s) == {s[i] : i \in 1..Len(s)}

\* The rows the model draws from, a value for every column name in use.
\* The second has no value for B.
BaseRows ==
  <<[CRIM |-> 1, CHAS |-> 0, B |-> 3, MEDV |-> 240, prediction |-> 7],
    [CRIM |-> 2, CHAS |-> 1, B |-> NULL, MEDV |-> 216, prediction |-> 7]>>

\* spark.createDataFrame(data, columns)
createDataFrame(ids, cols) ==
  [columns |-> cols,
   rows |-> [i \in 1..Len(ids) |-> [c \in Range(cols) |-> BaseRows[ids[i]][c]]]]

NoTable == [columns |-> <<>>, rows |-> <<>>]

\* inferSchema=True: the type of each column of housing.csv
ColumnType(c) == IF c \in {"CHAS", "RAD", "TAX"} THEN "integer" ELSE "double"

RECURSIVE SelectSeq2(_, _)
\* the elements of s other than x, in order
SelectSeq2(s, x) ==
  IF s = <<>> THEN <<>>
  ELSE IF Head(s) = x THEN SelectSeq2(Tail(s), x)
       ELSE <<Head(s)>> \o SelectSeq2(Tail(s), x)

\* DataFrame.drop(col): a no-op when the column is absent
drop(df, col) ==
  LET cols == SelectSeq2(df.columns, col) IN
  [columns |-> cols,
   rows |-> [i \in 1..Len(df.rows) |-> [c \in Range(cols) |-> df.rows[i][c]]]]

\* the two versions of housing.csv the notebook may read
Datasets ==
  {createDataFrame([i \in 1..MaxDataRows |-> 1 + (i % 2)], <<"CRIM", "CHAS", "MEDV">>),
   createDataFrame(<<1, 1>>, <<"CRIM", "CHAS", "B", "MEDV">>)}

RowSeqs(max) == UNION {[1..n -> 1..Len(BaseRows)] : n \in 0..max}

InputColumns ==
  {<<"CRIM", "CHAS">>, <<"CRIM", "CHAS", "B">>, <<"CRIM", "CHAS", "prediction">>}

Tables(max) == {createDataFrame(ids, cols) : ids \in RowSeqs(max), cols \in InputColumns}

\* the tables a cell of the notebook may hand to run
InputTables == Tables(MaxRows)

\* the tables a request to the deployed service may carry
RequestTables == Tables(MaxRequestRows)

-----------------------------------------------------------------------------
(* The fitted pipeline: RFormula("MEDV~.") followed by a GBTRegressor *)

Unbound == [bound |-> FALSE, label |-> "", features |-> <<>>, trees |-> 0]

RECURSIVE SumColumn(_, _)
SumColumn(rows, c) ==
  IF rows = <<>> THEN 0 ELSE Head(rows)[c] + SumColumn(Tail(rows), c)

\* Pipeline(stages=[formula, gbt]).fit(df): "MEDV~." takes every column but
\* MEDV as a feature; the regressor is a deterministic function of the data.
fit(df) ==
  [bound |-> TRUE,
   label |-> "MEDV",
   features |-> SelectSeq2(df.columns, "MEDV"),
   trees |-> SumColumn(df.rows, "MEDV") \div Len(df.rows)]

RECURSIVE SumFeatures(_, _)
SumFeatures(row, cols) ==
  IF cols = <<>> THEN 0 ELSE row[Head(cols)] + SumFeatures(row, Tail(cols))

\* the regressor's prediction for one row: reads the feature columns only
Predict(p, row) == (p.trees + 7 * SumFeatures(row, p.features)) % 1000

-----------------------------------------------------------------------------
(* Strings and exceptions *)

Digits == <<"0", "1", "2", "3", "4", "5", "6", "7", "8", "9">>

RECURSIVE StrNat(_)
\* str of a natural number: its decimal digits
StrNat(n) ==
  IF n < 10 THEN <<Digits[n + 1]>>
  ELSE StrNat(n \div 10) \o <<Digits[(n % 10) + 1]>>

\* str(pred['prediction']): a double prints with its fraction
str(x) == StrNat(x \div 10) \o <<".">> \o <<Digits[(x % 10) + 1]>>

NoExc == [type |-> "", args |-> <<>>]

\* Mutant of strExc: repr(e) in place of str(e).
reprExc(e) == <<e.type, "(">> \o e.args \o <<")">>

\* str(e) of an exception: its message, without the type
strExc(e) == e.args

\* run reads the global name before init has bound it
NameError ==
  [type |-> "NameError",
   args |-> <<"n", "a", "m", "e", " ", "'", "p", "i", "p", "e", "l", "i", "n", "e",
              "'", " ", "i", "s", " ", "n", "o", "t", " ", "d", "e", "f", "i", "n",
              "e", "d">>]

\* the library's report of a column the fitted formula needs and the input lacks
MissingColumn(c) ==
  [type |-> "IllegalArgumentException",
   args |-> <<"F", "i", "e", "l", "d", " ", c, " ", "d", "o", "e", "s", " ", "n",
              "o", "t", " ", "e", "x", "i", "s", "t">>]

\* the library's report of an input column named like a column a stage adds
ColumnExists(c) ==
  [type |-> "IllegalArgumentException",
   args |-> <<"C", "o", "l", "u", "m", "n", " ", c, " ", "a", "l", "r", "e", "a",
              "d", "y", " ", "e", "x", "i", "s", "t", "s">>]

\* the library's report of a null in a feature, raised when the job runs
NullValue ==
  [type |-> "Py4JJavaError",
   args |-> <<"V", "a", "l", "u", "e", "s", " ", "t", "o", " ", "a", "s", "s", "e",
              "m", "b", "l", "e", " ", "c", "a", "n", "n", "o", "t", " ", "b", "e",
              " ", "n", "u", "l", "l">>]

\* pred['prediction'] on a row without that field
RenderError == [type |-> "ValueError", args |-> <<"p", "r", "e", "d", "i", "c", "t", "i", "o", "n">>]

-----------------------------------------------------------------------------
(* The library calls run makes *)

\* the columns the fitted stages add to their input
OutputColumns == <<"features", "prediction">>

RECURSIVE FirstMissing(_, _)
\* the first of cols that is not in have, "" when none is missing
FirstMissing(cols, have) ==
  IF cols = <<>> THEN ""
  ELSE IF Head(cols) \notin have THEN Head(cols)
       ELSE FirstMissing(Tail(cols), have)

\* Mutant of transformRaises: the input must have the trained columns and no
\* others.
transformRaisesStrict(p, df) ==
  LET have == Range(df.columns) IN
  IF FirstMissing(p.features, have) # ""
    THEN MissingColumn(FirstMissing(p.features, have))
  ELSE IF have # Range(p.features)
    THEN ColumnExists(CHOOSE c \in have \ Range(p.features) : TRUE)
  ELSE NoExc

\* what pipeline.transform(df) raises, NoExc when it returns: every feature of
\* the formula must be a column of df and no output column may be one already;
\* columns the formula does not name, the label among them, are ignored
transformRaises(p, df) ==
  LET have == Range(df.columns) IN
  IF FirstMissing(p.features, have) # ""
    THEN MissingColumn(FirstMissing(p.features, have))
  ELSE IF \E i \in 1..Len(OutputColumns) : OutputColumns[i] \in have
    THEN ColumnExists(OutputColumns[CHOOSE i \in 1..Len(OutputColumns) :
                                       /\ OutputColumns[i] \in have
                                       /\ \A j \in 1..(i - 1) : OutputColumns[j] \notin have])
  ELSE NoExc

\* pipeline.transform(df): a lazy table, nothing is computed yet
transform(p, df) == [model |-> p, input |-> df]

NoScore == transform(Unbound, NoTable)

\* what score.collect() raises, NoExc when it returns
collectRaises(score) ==
  IF \E i \in 1..Len(score.input.rows) :
       \E j \in 1..Len(score.model.features) :
         score.input.rows[i][score.model.features[j]] = NULL
    THEN NullValue
  ELSE NoExc

\* score.collect(): one scored row per input row, in input order
collect(score) ==
  [i \in 1..Len(score.input.rows) |->
     [prediction |-> Predict(score.model, score.input.rows[i])]]

\* PipelineModel.write().overwrite().save / PipelineModel.load: the directory
\* holds the stages one by one
NoFile == [exists |-> FALSE, stages |-> <<>>]

serialize(p) ==
  [exists |-> TRUE,
   stages |-> <<[stage |-> "RFormulaModel", label |-> p.label, features |-> p.features],
                [stage |-> "GBTRegressionModel", trees |-> p.trees]>>]

load(d) ==
  [bound |-> TRUE,
   label |-> d.stages[1].label,
   features |-> d.stages[1].features,
   trees |-> d.stages[2].trees]

-----------------------------------------------------------------------------
(* Schema generation *)

\* DataTypes.SPARK as the schema document prints it
DataTypesSPARK == 2

\* the number of sample rows the swagger view quotes
SwaggerSampleSize == 3

SampleDefinition(type, df) == [type |-> type, sample |-> df]

\* the first n elements of s, all of s when it is shorter
Take(s, n) == IF Len(s) <= n THEN s ELSE SubSeq(s, 1, n)

InternalSchema(df) ==
  [fields |-> [i \in 1..Len(df.columns) |->
                 [name |-> df.columns[i], nullable |-> TRUE,
                  type |-> ColumnType(df.columns[i])]],
   type |-> "struct"]

\* Mutant of SwaggerProperty: integers described as 64-bit.
SwaggerPropertyLong(type) ==
  IF type = "integer" THEN [format |-> "int64", type |-> "integer"]
  ELSE [format |-> "double", type |-> "number"]

SwaggerProperty(type) ==
  IF type = "integer" THEN [format |-> "int32", type |-> "integer"]
  ELSE [format |-> "double", type |-> "number"]

SwaggerSchema(df) ==
  [example |-> Take(df.rows, SwaggerSampleSize),
   items |-> [properties |-> [c \in Range(df.columns) |-> SwaggerProperty(ColumnType(c))],
              type |-> "object"],
   type |-> "array"]

\* generate_schema(run_func=score.run, inputs=inputs, filepath=...): one entry
\* per name of inputs
generate_schema(ins) ==
  [input |-> [name \in DOMAIN ins |->
                [internal |-> InternalSchema(ins[name].sample),
                 swagger |-> SwaggerSchema(ins[name].sample),
                 type |-> ins[name].type]]]

NoSchema == [input |-> <<>>]

\* inputs = {"input_df": SampleDefinition(DataTypes.SPARK, df2.drop("MEDV"))}
inputs == [input_df |-> SampleDefinition(DataTypesSPARK, drop(df2, "MEDV"))]

-----------------------------------------------------------------------------
(* The notebook's cells *)

ReadCsv(d) ==
  /\ proc = "notebook"
  /\ df2' = d
  /\ UNCHANGED <<nbPipeline, disk, lastSaved, schemaFile, pipeline, calls, proc, inits, fresh>>

Fit ==
  /\ proc = "notebook"
  /\ df2 # NoTable
  /\ nbPipeline' = fit(df2)
  /\ UNCHANGED <<df2, disk, lastSaved, schemaFile, pipeline, calls, proc, inits, fresh>>

\* Mutant of Save: written without overwrite(), a directory already there is
\* kept.
SaveKeepsExisting ==
  /\ proc = "notebook"
  /\ nbPipeline.bound
  /\ disk' = IF disk.exists THEN disk ELSE serialize(nbPipeline)
  /\ lastSaved' = nbPipeline
  /\ fresh' = FALSE
  /\ UNCHANGED <<df2, nbPipeline, schemaFile, pipeline, calls, proc, inits>>

\* Mutant of Save: score.py shares the notebook's name `pipeline`, which the
\* cell that saves rebinds.
SaveRebindsModule ==
  /\ proc = "notebook"
  /\ nbPipeline.bound
  /\ disk' = serialize(nbPipeline)
  /\ lastSaved' = nbPipeline
  /\ fresh' = FALSE
  /\ pipeline' = nbPipeline
  /\ UNCHANGED <<df2, nbPipeline, schemaFile, calls, proc, inits>>

\* pipeline.write().overwrite().save("housing.model")
Save ==
  /\ proc = "notebook"
  /\ nbPipeline.bound
  /\ disk' = serialize(nbPipeline)
  /\ lastSaved' = nbPipeline
  /\ fresh' = FALSE
  /\ UNCHANGED <<df2, nbPipeline, schemaFile, pipeline, calls, proc, inits>>

GenerateSchema ==
  /\ proc = "notebook"
  /\ df2 # NoTable
  /\ schemaFile' = generate_schema(inputs)
  /\ UNCHANGED <<df2, nbPipeline, disk, lastSaved, pipeline, calls, proc, inits, fresh>>

-----------------------------------------------------------------------------
(* score.py *)

Idle ==
  [pc |-> "idle", input_df |-> NoTable, seen |-> Unbound, score |-> NoScore,
   predictions |-> <<>>, k |-> 0, response |-> <<>>, result |-> <<>>,
   raised |-> NoExc]

\* Mutant of init: the loaded stages are added to a pipeline already bound.
initAppends ==
  /\ disk.exists
  /\ pipeline' = IF pipeline.bound
                   THEN [pipeline EXCEPT !.features = @ \o load(disk).features]
                   ELSE load(disk)
  /\ fresh' = TRUE

\* def init(): raises, binding nothing, when housing.model cannot be read
init ==
  /\ disk.exists
  /\ pipeline' = load(disk)
  /\ fresh' = TRUE

\* Mutant of DropLast: the last comma is left in place.
DropNone(s) == s

\* response[:-1]
DropLast(s) == IF Len(s) = 0 THEN s ELSE SubSeq(s, 1, Len(s) - 1)

\* Mutant of Except: the message is added to the response built so far.
ExceptWithResponse(frame, e) ==
  [Idle EXCEPT !.pc = "returned", !.input_df = frame.input_df,
               !.seen = frame.seen, !.k = frame.k,
               !.result = frame.response \o strExc(e), !.raised = e]

\* except Exception as e: return (str(e))
Except(frame, e) ==
  [Idle EXCEPT !.pc = "returned", !.input_df = frame.input_df,
               !.seen = frame.seen, !.k = frame.k, !.result = strExc(e), !.raised = e]

\* def run(input_df): response = ''
RunCall(t, df) ==
  /\ calls[t].pc \in {"idle", "returned"}
  /\ calls' = [calls EXCEPT ![t] = [Idle EXCEPT !.pc = "transform", !.input_df = df]]
  /\ UNCHANGED <<df2, nbPipeline, disk, lastSaved, schemaFile, pipeline, proc, inits, fresh>>

\* score = pipeline.transform(input_df)
RunTransform(t) ==
  LET c == calls[t] IN
  /\ c.pc = "transform"
  /\ calls' = [calls EXCEPT ![t] =
       IF ~pipeline.bound THEN Except(c, NameError)
       ELSE IF transformRaises(pipeline, c.input_df) # NoExc
         THEN Except([c EXCEPT !.seen = pipeline], transformRaises(pipeline, c.input_df))
       ELSE [c EXCEPT !.pc = "collect", !.seen = pipeline,
                      !.score = transform(pipeline, c.input_df)]]
  /\ UNCHANGED <<df2, nbPipeline, disk, lastSaved, schemaFile, pipeline, proc, inits, fresh>>

\* predictions = score.collect()
RunCollect(t) ==
  LET c == calls[t] IN
  /\ c.pc = "collect"
  /\ calls' = [calls EXCEPT ![t] =
       IF collectRaises(c.score) # NoExc THEN Except(c, collectRaises(c.score))
       ELSE [c EXCEPT !.pc = "loop", !.predictions = collect(c.score), !.k = 0]]
  /\ UNCHANGED <<df2, nbPipeline, disk, lastSaved, schemaFile, pipeline, proc, inits, fresh>>

\* Mutant of RunAppend: response is a name of the module, shared by the calls
\* in progress.
RunAppendShared(t) ==
  LET c == calls[t]
      token == str(c.predictions[c.k + 1].prediction) \o <<",">> IN
  /\ c.pc = "loop"
  /\ c.k < Len(c.predictions)
  /\ calls' = [u \in Threads |->
       IF u = t THEN [c EXCEPT !.k = c.k + 1, !.response = c.response \o token]
       ELSE IF calls[u].pc = "loop" THEN [calls[u] EXCEPT !.response = @ \o token]
       ELSE calls[u]]
  /\ UNCHANGED <<df2, nbPipeline, disk, lastSaved, schemaFile, pipeline, proc, inits, fresh>>

\* for pred in predictions: response += str(pred['prediction']) + ","
RunAppend(t) ==
  LET c == calls[t] IN
  /\ c.pc = "loop"
  /\ c.k < Len(c.predictions)
  /\ calls' = [calls EXCEPT ![t] =
       [c EXCEPT !.k = c.k + 1,
                 !.response = c.response \o str(c.predictions[c.k + 1].prediction)
                                         \o <<",">>]]
  /\ UNCHANGED <<df2, nbPipeline, disk, lastSaved, schemaFile, pipeline, proc, inits, fresh>>

\* the body of the loop raises
RunRenderRaises(t) ==
  /\ calls[t].pc = "loop"
  /\ calls[t].k < Len(calls[t].predictions)
  /\ calls' = [calls EXCEPT ![t] = Except(calls[t], RenderError)]
  /\ UNCHANGED <<df2, nbPipeline, disk, lastSaved, schemaFile, pipeline, proc, inits, fresh>>

\* response = response[:-1]; return response
RunReturn(t) ==
  /\ calls[t].pc = "loop"
  /\ calls[t].k = Len(calls[t].predictions)
  /\ calls' = [calls EXCEPT ![t] =
       [Idle EXCEPT !.pc = "returned", !.input_df = calls[t].input_df,
                    !.seen = calls[t].seen, !.k = calls[t].k,
                    !.result = DropLast(calls[t].response)]]
  /\ UNCHANGED <<df2, nbPipeline, disk, lastSaved, schemaFile, pipeline, proc, inits, fresh>>

RunStep(t) ==
  \/ RunTransform(t)
  \/ RunCollect(t)
  \/ RunAppend(t)
  \/ RunRenderRaises(t)
  \/ RunReturn(t)

-----------------------------------------------------------------------------
(* The notebook as the caller of score.py: one thread, any order of cells *)

NotebookThread == 1

CellInit ==
  /\ proc = "notebook"
  /\ init
  /\ UNCHANGED <<df2, nbPipeline, disk, lastSaved, schemaFile, calls, proc, inits>>

CellRun(df) ==
  /\ proc = "notebook"
  /\ RunCall(NotebookThread, df)

Init ==
  /\ df2 = NoTable
  /\ nbPipeline = Unbound
  /\ disk = NoFile
  /\ lastSaved = Unbound
  /\ schemaFile = NoSchema
  /\ pipeline = Unbound
  /\ calls = [t \in Threads |-> Idle]
  /\ proc = "notebook"
  /\ inits = 0
  /\ fresh = FALSE

Next ==
  \/ \E d \in Datasets : ReadCsv(d)
  \/ Fit
  \/ Save
  \/ GenerateSchema
  \/ CellInit
  \/ \E df \in InputTables : CellRun(df)
  \/ RunStep(NotebookThread)

Spec == Init /\ [][Next]_vars

-----------------------------------------------------------------------------
(* The deployed service: the container runs init when it starts and then   *)
(* dispatches scoring calls to run                                         *)

ContainerStart ==
  /\ proc = "down"
  /\ proc' = "starting"
  /\ inits' = 0
  /\ UNCHANGED <<df2, nbPipeline, disk, lastSaved, schemaFile, pipeline, calls, fresh>>

HostInit ==
  /\ proc = "starting"
  /\ init
  /\ proc' = "serving"
  /\ inits' = inits + 1
  /\ UNCHANGED <<df2, nbPipeline, disk, lastSaved, schemaFile, calls>>

\* init raised: the container does not come up
HostInitRaises ==
  /\ proc = "starting"
  /\ ~disk.exists
  /\ proc' = "down"
  /\ UNCHANGED <<df2, nbPipeline, disk, lastSaved, schemaFile, pipeline, calls, inits, fresh>>

\* Mutant of Dispatch: requests are taken as soon as the process is up.
DispatchEarly(t, df) ==
  /\ proc \in {"starting", "serving"}
  /\ RunCall(t, df)

Dispatch(t, df) ==
  /\ proc = "serving"
  /\ RunCall(t, df)

\* the process ends, and with it the module's names and the calls in progress
ContainerStop ==
  /\ proc = "serving"
  /\ proc' = "down"
  /\ pipeline' = Unbound
  /\ calls' = [t \in Threads |-> Idle]
  /\ fresh' = FALSE
  /\ UNCHANGED <<df2, nbPipeline, disk, lastSaved, schemaFile, inits>>

\* az ml service create realtime --model-file housing.model -f score.py
\* -s service_schema.json: the files of a notebook run, or no model at all
HostInitial ==
  /\ df2 \in Datasets
  /\ nbPipeline = fit(df2)
  /\ \/ disk = serialize(nbPipeline) /\ lastSaved = nbPipeline
     \/ disk = NoFile /\ lastSaved = Unbound
  /\ schemaFile = generate_schema(inputs)
  /\ pipeline = Unbound
  /\ calls = [t \in Threads |-> Idle]
  /\ proc = "down"
  /\ inits = 0
  /\ fresh = FALSE

HostNext ==
  \/ ContainerStart
  \/ HostInit
  \/ HostInitRaises
  \/ \E t \in Threads : \E df \in RequestTables : Dispatch(t, df)
  \/ \E t \in Threads : RunStep(t)
  \/ ContainerStop

HostSpec == HostInitial /\ [][HostNext]_vars

-----------------------------------------------------------------------------
(* What the claims speak of *)

RECURSIVE JoinComma(_)
\* the tokens in order, a comma between neighbours
JoinComma(tokens) ==
  IF tokens = <<>> THEN <<>>
  ELSE IF Len(tokens) = 1 THEN tokens[1]
       ELSE tokens[1] \o <<",">> \o JoinComma(Tail(tokens))

RECURSIVE Split(_, _)
\* the comma-separated tokens of a non-empty string s, cur being the token begun
Split(s, cur) ==
  IF s = <<>> THEN <<cur>>
  ELSE IF Head(s) = "," THEN <<cur>> \o Split(Tail(s), <<>>)
       ELSE Split(Tail(s), Append(cur, Head(s)))

\* the tokens of a response: the empty string holds none
Tokens(s) == IF s = <<>> THEN <<>> ELSE Split(s, <<>>)

\* digits, a point, digits
IsNumeric(tok) ==
  /\ Len(tok) >= 3
  /\ \E d \in 2..(Len(tok) - 1) :
       /\ tok[d] = "."
       /\ \A i \in (1..Len(tok)) \ {d} : tok[i] \in Range(Digits)

\* the prediction of each row of df under p, printed
PredictionTokens(p, df) == [i \in 1..Len(df.rows) |-> str(Predict(p, df.rows[i]))]

HasNull(p, df) ==
  \E i \in 1..Len(df.rows) : \E c \in Range(p.features) : df.rows[i][c] = NULL

ExactColumns(p, df) == Range(df.columns) = Range(p.features)

Returned(t) == calls[t].pc = "returned"

\* what run returns for df when p is the module's pipeline and the loop's body
\* does not raise
RunAlone(p, df) ==
  IF ~p.bound THEN strExc(NameError)
  ELSE IF transformRaises(p, df) # NoExc THEN strExc(transformRaises(p, df))
  ELSE IF HasNull(p, df) THEN strExc(NullValue)
  ELSE JoinComma(PredictionTokens(p, df))

\* C1: for a table with exactly the trained feature columns and no null in
\* them, a run that began after init and whose loop body did not raise
\* returns the predictions of its n rows, in row order, as n numeric tokens
\* separated by commas with no trailing comma; for n = 0 the empty string.
C1_OneTokenPerRow ==
  \A t \in Threads :
    LET c == calls[t]
        n == Len(c.input_df.rows) IN
    (/\ Returned(t)
     /\ c.seen.bound
     /\ ExactColumns(c.seen, c.input_df)
     /\ ~HasNull(c.seen, c.input_df)
     /\ c.raised # RenderError)
    => /\ c.raised = NoExc
       /\ Len(Tokens(c.result)) = n
       /\ \A i \in 1..n :
            /\ IsNumeric(Tokens(c.result)[i])
            /\ Tokens(c.result)[i] = str(Predict(c.seen, c.input_df.rows[i]))
       /\ (n = 0 => c.result = <<>>)
       /\ (n > 0 => c.result[Len(c.result)] # ",")

\* C1 witness: a three-row table with the trained columns has been scored.
C1_Witness ==
  \E t \in Threads :
    /\ Returned(t)
    /\ calls[t].seen.bound
    /\ ExactColumns(calls[t].seen, calls[t].input_df)
    /\ Len(calls[t].input_df.rows) = 3
    /\ calls[t].raised = NoExc
    /\ calls[t].input_df.rows[1] # calls[t].input_df.rows[2]

\* C2: a run in which transform, collect or the rendering of a prediction
\* raised has returned, and what it returned is the string of that exception
\* alone, with nothing of the predictions rendered before it.
C2_ExceptionBecomesResponse ==
  \A t \in Threads :
    LET c == calls[t] IN
    /\ c.pc \in {"idle", "transform", "collect", "loop", "returned"}
    /\ (Returned(t) /\ c.seen.bound) =>
         /\ transformRaises(c.seen, c.input_df) # NoExc
              => (c.raised = transformRaises(c.seen, c.input_df)
                  /\ c.result = c.raised.args)
         /\ (transformRaises(c.seen, c.input_df) = NoExc /\ HasNull(c.seen, c.input_df))
              => (c.raised = NullValue /\ c.result = NullValue.args)
         /\ c.raised = RenderError => c.result = RenderError.args
         /\ c.raised # NoExc => c.result = c.raised.args

\* C2 witness: the loop raised after it had rendered a prediction.
C2_Witness ==
  \E t \in Threads :
    /\ Returned(t)
    /\ calls[t].raised = RenderError
    /\ calls[t].k >= 1

\* C9: while init has never completed, every run that has returned has
\* returned the string of the unbound-name error, whatever its input.
C9_UnboundNameIsReturned ==
  \A t \in Threads :
    (Returned(t) /\ ~pipeline.bound)
    => /\ calls[t].raised.type = "NameError"
       /\ calls[t].result = NameError.args
       /\ Tokens(calls[t].result) # PredictionTokens(Unbound, calls[t].input_df)

\* C9 witness: run has returned for a table with rows before any init.
C9_Witness ==
  \E t \in Threads :
    /\ Returned(t)
    /\ ~pipeline.bound
    /\ Len(calls[t].input_df.rows) >= 1

\* the columns p was trained on, the target column MEDV left out
TrainedColumns(p) == Range(p.features)

\* C3 as stated: run yields predictions only for tables whose column set is
\* exactly the training column set without MEDV.
C3_OnlyExactColumnsScore ==
  \A t \in Threads :
    (Returned(t) /\ calls[t].seen.bound /\ calls[t].raised = NoExc)
    => Range(calls[t].input_df.columns) = TrainedColumns(calls[t].seen)

\* C3 amended: run yields predictions only for tables that hold every trained
\* feature column and no column named like a column the pipeline adds; the
\* library raises on transform for exactly the other tables, and a table that
\* lacks a trained feature column ends in the library's report of that column,
\* never in predictions.  Columns beyond the trained ones are ignored.
C3_TrainedColumnsSuffice ==
  \A t \in Threads :
    LET c == calls[t]
        have == Range(c.input_df.columns)
        accepted == /\ TrainedColumns(c.seen) \subseteq have
                    /\ have \cap Range(OutputColumns) = {} IN
    (Returned(t) /\ c.seen.bound)
    => /\ c.raised = NoExc => accepted
       /\ accepted <=> c.raised \in {NoExc, NullValue, RenderError}
       /\ (accepted /\ ~HasNull(c.seen, c.input_df) /\ c.raised # RenderError)
            => c.result = JoinComma(PredictionTokens(c.seen, c.input_df))
       /\ ~(TrainedColumns(c.seen) \subseteq have)
            => /\ c.raised.type = "IllegalArgumentException"
               /\ c.result = c.raised.args
               /\ \E col \in TrainedColumns(c.seen) \ have : c.raised = MissingColumn(col)

\* C3 witness: a table with the extra column B has been scored by a pipeline
\* trained without B.
C3_Witness ==
  \E t \in Threads :
    /\ Returned(t)
    /\ calls[t].seen.bound
    /\ calls[t].raised = NoExc
    /\ "B" \in Range(calls[t].input_df.columns) \ TrainedColumns(calls[t].seen)
    /\ Len(calls[t].input_df.rows) >= 1

\* C4: an init that follows a completed init, housing.model unchanged in
\* between, leaves the module's pipeline as it was, and with it what run
\* returns (compared here on every input table of at most one row).
C4_InitIdempotent ==
  [][(fresh /\ CellInit)
      => /\ pipeline' = pipeline
         /\ \A df \in Tables(1) : RunAlone(pipeline', df) = RunAlone(pipeline, df)]_vars

\* C4 witness: init has completed and housing.model is as it read it, so that
\* a second init can follow.
C4_Witness == fresh /\ pipeline.bound /\ ENABLED CellInit

\* C5: once a fit has been saved, housing.model holds the fit saved last, and
\* a pipeline initialised since the last save is that fit and scores as it.
C5_LastSaveWins ==
  lastSaved.bound
  => /\ disk.exists
     /\ load(disk) = lastSaved
     /\ fresh => /\ pipeline = lastSaved
                 /\ \A df \in InputTables : RunAlone(pipeline, df) = RunAlone(lastSaved, df)

\* C5 witness: a second, different fit has been saved over the first and
\* loaded by init.
C5_Witness ==
  /\ fresh
  /\ pipeline = lastSaved
  /\ nbPipeline = lastSaved
  /\ \E t \in Threads : Returned(t) /\ calls[t].seen.bound /\ calls[t].seen # pipeline

\* C8: a save leaves the module's pipeline as it is; the pipeline changes only
\* in an init, which makes it the persisted copy of that moment.
C8_SaveLeavesLoadedPipeline ==
  [][/\ Save => pipeline' = pipeline
     /\ pipeline' # pipeline => (CellInit /\ pipeline' = load(disk))]_vars

\* C8 witness: after init a different fit has been saved, and the module still
\* holds the pipeline it loaded.
C8_Witness ==
  /\ pipeline.bound
  /\ disk.exists
  /\ ~fresh
  /\ load(disk) # pipeline
  /\ \E df \in InputTables : RunAlone(load(disk), df) # RunAlone(pipeline, df)

\* C7 as stated: the swagger example holds all rows of the sample.
C7_ExampleHoldsAllRows ==
  [][GenerateSchema
      => schemaFile'.input.input_df.swagger.example = drop(df2, "MEDV").rows]_vars

\* C7 amended: for a sample of N columns the schema written has, under the
\* name input_df, N internal fields, one per column and in column order, one
\* swagger property per column whose type and format follow the column type
\* (double: number/double, integer: integer/int32), and as example the first
\* rows of the sample, three at most.
C7_SchemaFollowsSample ==
  [][GenerateSchema
      => LET sample == drop(df2, "MEDV")
             N == Len(sample.columns)
             doc == schemaFile'.input IN
         /\ DOMAIN doc = {"input_df"}
         /\ Len(doc.input_df.internal.fields) = N
         /\ \A i \in 1..N : doc.input_df.internal.fields[i].name = sample.columns[i]
         /\ DOMAIN doc.input_df.swagger.items.properties = Range(sample.columns)
         /\ Cardinality(DOMAIN doc.input_df.swagger.items.properties) = N
         /\ \A c \in Range(sample.columns) :
              LET prop == doc.input_df.swagger.items.properties[c] IN
              /\ ColumnType(c) = "double" => (prop.type = "number" /\ prop.format = "double")
              /\ ColumnType(c) = "integer" => (prop.type = "integer" /\ prop.format = "int32")
         /\ LET ex == doc.input_df.swagger.example IN
            /\ Len(ex) = IF Len(sample.rows) < 3 THEN Len(sample.rows) ELSE 3
            /\ \A i \in 1..Len(ex) : ex[i] = sample.rows[i]]_vars

\* C7 witness: the schema file has been written from a sample of more than
\* three rows, with a double and an integer column.
C7_Witness ==
  /\ schemaFile # NoSchema
  /\ schemaFile = generate_schema(inputs)
  /\ Len(df2.rows) > 3
  /\ Len(schemaFile.input.input_df.swagger.example) = 3
  /\ {ColumnType(c) : c \in Range(drop(df2, "MEDV").columns)} = {"double", "integer"}

ReturnedAlone ==
  \A t \in Threads :
    Returned(t)
    => calls[t].result = IF calls[t].raised = RenderError THEN strExc(RenderError)
                         ELSE RunAlone(calls[t].seen, calls[t].input_df)

\* C10: a step of run leaves the module's pipeline as it is, and however the
\* calls of run interleave, each returns what it returns when run alone on
\* its own input under the loaded pipeline.
C10_CallsDoNotInterfere ==
  [][(\E t \in Threads : RunStep(t))
      => /\ pipeline' = pipeline
         /\ ReturnedAlone'
         /\ \A t \in Threads : calls'[t].pc # "idle" => calls'[t].seen \in {Unbound, pipeline}]_vars

\* C10 witness: two calls on different inputs are both inside the loop, each
\* having rendered a prediction.
C10_Witness ==
  /\ \A t \in Threads : calls[t].pc = "loop" /\ calls[t].k >= 1
  /\ \E t, u \in Threads : calls[t].input_df.rows # calls[u].input_df.rows

====
